---- MODULE Spec2Model ----
(***************************************************************************)
(* Model of blender/editors/util/ed_util.c (editor lifecycle glue) and of  *)
(* blender/vr/intern/vr_widget_shift.cpp (Widget_Shift::render_icon).      *)
(*                                                                         *)
(* Calls into the host application (mode toggling, mesh write-back, UI     *)
(* layout, GPU drawing) are recorded, in order, in the variable `calls`;   *)
(* each operation starts a fresh record of the calls it makes.             *)
(***************************************************************************)
EXTENDS Integers, Sequences, FiniteSets, TLC

\* Largest number of objects in bmain->object (and of object-data blocks).
NumObjects == 2

VARIABLES
    objects,         \* bmain->object: the list of Object, in list order
    obdata,          \* the ID blocks ob->data points to (Mesh, bArmature, ...)
    wm_first,        \* G_MAIN->wm.first != NULL
    undo_stack,      \* wm->undo_stack: "NULL" or "stack"
    reports_flag,    \* CTX_wm_reports(C)->flag, a set of RPT_* bits
    obact,           \* CTX_data_active_object(C): index in objects, 0 = NULL
    scene,           \* CTX_data_scene(C) != NULL
    calls,           \* calls made by the last operation, in order
    ret,             \* return value of the last operation
    op,              \* the last operation and its arguments
    entry,           \* the state at entry of the last operation
    relbase_valid,   \* G.relbase_valid
    m_widget_touched,\* VR_Widget::m_widget_touched, a Mat44f
    val              \* *val of apply_keyb_grid

vars == <<objects, obdata, wm_first, undo_stack, reports_flag, obact, scene,
          calls, ret, op, entry, relbase_valid, m_widget_touched, val>>

\* The editors' data, which the menu, the grid snap and the widget leave alone.
edvars == <<objects, obdata, wm_first, undo_stack, reports_flag, obact, scene,
            entry>>

-----------------------------------------------------------------------------
(* Flags and enumerations. Bit masks are sets of bit names.                *)

OB_MODE_OBJECT == {}
OB_MODE_EDIT   == "OB_MODE_EDIT"
OB_MODE_SCULPT == "OB_MODE_SCULPT"

RPT_PRINT == "RPT_PRINT"
RPT_STORE == "RPT_STORE"

OB_MESH     == "OB_MESH"
OB_ARMATURE == "OB_ARMATURE"
OB_GPENCIL  == "OB_GPENCIL"

NoCalls   == << >>

ObjIds == 1..NumObjects

\* Object: the fields of struct Object the editors read or write.
\*   lib            ID_IS_LINKED(ob)
\*   data           ob->data: index in obdata, 0 = NULL
\*   has_mode_data  BKE_object_has_mode_data(ob, ob->mode)
\*   sculpt, cache  ob->sculpt != NULL, ob->sculpt->cache != NULL
Object(type, mode, hmd, lib, data, sculpt, cache) ==
    [type |-> type, mode |-> mode, has_mode_data |-> hmd, lib |-> lib,
     data |-> data, sculpt |-> sculpt, cache |-> cache]

\* ObData: lib = ID_IS_LINKED(data); edit = me->edit_btmesh != NULL for a
\* Mesh, arm->edbo != NULL for a bArmature.
ObData(lib, edit) == [lib |-> lib, edit |-> edit]

\* A recorded call: the function, the object (index in objects, 0 = none) and
\* the data block (index in obdata, 0 = none) it is made on, its mode and
\* other argument, and reports->flag at the time of the call.
Call(fn, ob, data, mode, arg, flag) ==
    [fn |-> fn, ob |-> ob, data |-> data, mode |-> mode, arg |-> arg,
     flag |-> flag]

ObCall(fn, i, arg) == Call(fn, i, 0, {}, arg, {})

Snapshot ==
    [objects |-> objects, obdata |-> obdata, undo_stack |-> undo_stack,
     reports_flag |-> reports_flag, obact |-> obact, scene |-> scene,
     wm_first |-> wm_first]

-----------------------------------------------------------------------------
(* ED_editors_flush_edits                                                  *)

\* (ob->sculpt && ob->sculpt->cache): a stroke is in progress.
InStroke(ob) == ob.sculpt /\ ob.cache

FlushObjectNoStrokeCheck(ob, i, for_render) ==
    IF OB_MODE_SCULPT \in ob.mode
    THEN << ObCall("multires_force_update", i, ""),
            IF for_render
            THEN ObCall("BKE_sculptsession_bm_to_me_for_render", i, "")
            ELSE ObCall("BKE_sculptsession_bm_to_me", i, "reorder=false") >>
    ELSE IF OB_MODE_EDIT \in ob.mode
    THEN << ObCall("ED_object_editmode_load", i, "") >>
    ELSE NoCalls

FlushObjectSwapped(ob, i, for_render) ==
    IF OB_MODE_SCULPT \in ob.mode
    THEN IF ~InStroke(ob)
         THEN << ObCall("multires_force_update", i, ""),
                 IF ~for_render
                 THEN ObCall("BKE_sculptsession_bm_to_me_for_render", i, "")
                 ELSE ObCall("BKE_sculptsession_bm_to_me", i, "reorder=false") >>
         ELSE NoCalls
    ELSE IF OB_MODE_EDIT \in ob.mode
    THEN << ObCall("ED_object_editmode_load", i, "") >>
    ELSE NoCalls

\* The calls the loop body makes for one object.
FlushObject(ob, i, for_render) ==
    IF OB_MODE_SCULPT \in ob.mode
    THEN IF ~InStroke(ob)
         THEN << ObCall("multires_force_update", i, ""),
                 IF for_render
                 THEN ObCall("BKE_sculptsession_bm_to_me_for_render", i, "")
                 ELSE ObCall("BKE_sculptsession_bm_to_me", i, "reorder=false") >>
         ELSE NoCalls
    ELSE IF OB_MODE_EDIT \in ob.mode
    THEN << ObCall("ED_object_editmode_load", i, "") >>
    ELSE NoCalls

\* The loop body sets has_edited exactly where it makes calls.
RECURSIVE FlushLoop(_, _, _)
FlushLoop(i, obs, for_render) ==
    IF i > Len(obs)
    THEN [calls |-> NoCalls, has_edited |-> FALSE]
    ELSE LET here == FlushObject(obs[i], i, for_render)
             rest == FlushLoop(i + 1, obs, for_render)
         IN  [calls |-> here \o rest.calls,
              has_edited |-> (here # NoCalls) \/ rest.has_edited]

ED_editors_flush_edits(for_render) ==
    LET r == FlushLoop(1, objects, for_render)
    IN  /\ calls' = r.calls
        /\ ret' = r.has_edited
        /\ op' = [name |-> "ED_editors_flush_edits", for_render |-> for_render]
        /\ entry' = Snapshot
        /\ UNCHANGED <<objects, obdata, wm_first, undo_stack, reports_flag,
                       obact, scene, relbase_valid, m_widget_touched, val>>

ed_flush_edits_exec ==
    LET r == FlushLoop(1, objects, FALSE)
    IN  /\ calls' = r.calls
        /\ ret' = "OPERATOR_FINISHED"
        /\ op' = [name |-> "ed_flush_edits_exec", for_render |-> FALSE]
        /\ entry' = Snapshot
        /\ UNCHANGED <<objects, obdata, wm_first, undo_stack, reports_flag,
                       obact, scene, relbase_valid, m_widget_touched, val>>

FlushRender == ED_editors_flush_edits(TRUE)
FlushSave   == ED_editors_flush_edits(FALSE)

ModeSets == {OB_MODE_OBJECT, {OB_MODE_EDIT}, {OB_MODE_SCULPT},
             {OB_MODE_EDIT, OB_MODE_SCULPT}}

\* ob->sculpt and ob->sculpt->cache: a cache needs a sculpt session.
SculptStates == {<<FALSE, FALSE>>, <<TRUE, FALSE>>, <<TRUE, TRUE>>}

FlushObjects ==
    {Object(OB_MESH, m, TRUE, FALSE, 0, sc[1], sc[2]) :
        m \in ModeSets, sc \in SculptStates}

\* The menu's, the grid snap's and the widget's state, at rest.
NoAux == relbase_valid = FALSE /\ m_widget_touched = << >> /\ val = 0

NoData == [d \in ObjIds |-> ObData(FALSE, FALSE)]

InitFlush ==
    /\ \E n \in 1..NumObjects : objects \in [1..n -> FlushObjects]
    /\ obdata = NoData
    /\ wm_first = TRUE
    /\ undo_stack = "stack"
    /\ reports_flag = {}
    /\ obact = 0
    /\ scene = TRUE
    /\ calls = NoCalls
    /\ ret = "none"
    /\ op = [name |-> "none", for_render |-> FALSE]
    /\ entry = Snapshot
    /\ NoAux

NextFlush == FlushRender \/ FlushSave \/ ed_flush_edits_exec

SpecFlush == InitFlush /\ [][NextFlush]_vars

\* The calls of the last operation made on object i, in order.
CallsOn(i) == SelectSeq(calls, LAMBDA c : c.ob = i)

Flushed == op.name \in {"ED_editors_flush_edits", "ed_flush_edits_exec"}

MidStroke(ob) == OB_MODE_SCULPT \in ob.mode /\ ob.sculpt /\ ob.cache

\* What makes the loop set has_edited, read off the object alone.
Flushable(ob) ==
    /\ ob.mode \cap {OB_MODE_SCULPT, OB_MODE_EDIT} # {}
    /\ ~MidStroke(ob)

\* C1: a flush makes no call at all (multires_force_update, either
\* BKE_sculptsession_bm_to_me variant, ED_object_editmode_load) on an object
\* that is in sculpt mode with a sculpt session holding a stroke cache, also
\* when OB_MODE_EDIT is set too; and ED_editors_flush_edits returns true only
\* if some other object, one that is not in mid-stroke, was flushed.
C1_NoFlushMidStroke ==
    Flushed =>
        /\ \A i \in 1..Len(objects) :
               MidStroke(objects[i]) => CallsOn(i) = NoCalls
        /\ op.name = "ED_editors_flush_edits" =>
               (ret = TRUE <=> \E i \in 1..Len(objects) : Flushable(objects[i]))

C1_Witness ==
    /\ op.name = "ED_editors_flush_edits"
    /\ ret = TRUE
    /\ \E i \in 1..Len(objects) :
           /\ MidStroke(objects[i])
           /\ OB_MODE_EDIT \in objects[i].mode
    /\ calls # NoCalls

\* C7: for every sculpt-mode object without a stroke cache the flush calls
\* multires_force_update and then exactly one write-back on it, and nothing
\* else: BKE_sculptsession_bm_to_me_for_render when for_render is true,
\* BKE_sculptsession_bm_to_me with reorder=false when it is false; the
\* operator's exec flushes with for_render=false and returns
\* OPERATOR_FINISHED.
C7_SculptFlushOrder ==
    Flushed =>
        /\ \A i \in 1..Len(objects) :
               (OB_MODE_SCULPT \in objects[i].mode /\ ~MidStroke(objects[i])) =>
                   CallsOn(i) =
                       << ObCall("multires_force_update", i, ""),
                          IF op.for_render
                          THEN ObCall("BKE_sculptsession_bm_to_me_for_render", i, "")
                          ELSE ObCall("BKE_sculptsession_bm_to_me", i, "reorder=false") >>
        /\ op.name = "ed_flush_edits_exec" =>
               /\ ret = "OPERATOR_FINISHED"
               /\ op.for_render = FALSE
               /\ \A k \in 1..Len(calls) :
                      calls[k].fn # "BKE_sculptsession_bm_to_me_for_render"

C7_Witness ==
    /\ op.name = "ed_flush_edits_exec"
    /\ ret = "OPERATOR_FINISHED"
    /\ \E i \in 1..Len(objects) :
           /\ OB_MODE_SCULPT \in objects[i].mode
           /\ objects[i].sculpt /\ ~objects[i].cache
           /\ Len(CallsOn(i)) = 2
    /\ \E i \in 1..Len(objects) : MidStroke(objects[i])

\* The for_render write-back is reached too.
C7_WitnessRender ==
    /\ op.name = "ED_editors_flush_edits" /\ op.for_render
    /\ \E k \in 1..Len(calls) :
           calls[k].fn = "BKE_sculptsession_bm_to_me_for_render"

-----------------------------------------------------------------------------
(* ED_editors_init                                                         *)

ReportsFlagPrevKeepStore(flag) == flag

\* reports_flag_prev = reports->flag & ~RPT_STORE
ReportsFlagPrev(flag) == flag \ {RPT_STORE}

\* SWAP(int, reports->flag, reports_flag_prev) on <<reports->flag, prev>>
SWAP(p) == <<p[2], p[1]>>

\* ID_IS_LINKED(ob) / data && ID_IS_LINKED(data)
ObLinked(ob) == ob.lib
DataLinked(ob, datas) == ob.data # 0 /\ datas[ob.data].lib

ToggleCall(i, mode, flag) == Call("ED_object_mode_toggle", i, 0, mode, "", flag)

\* ED_object_mode_toggle(C, mode) acts on the active object: when it
\* succeeds (toggle_ok) the object is in `mode` with that mode's data.
Toggled(ob, mode, toggle_ok) ==
    IF toggle_ok
    THEN [ob EXCEPT !.mode = mode, !.has_mode_data = TRUE]
    ELSE ob

InitObjectAnyObject(ob, i, act, datas, flag, toggle_ok) ==
    IF ob.mode = OB_MODE_OBJECT
    THEN [ob |-> ob, calls |-> NoCalls]
    ELSE IF ~ob.has_mode_data /\ ob.type # OB_GPENCIL
    THEN LET reset == [ob EXCEPT !.mode = OB_MODE_OBJECT]
         IN  IF ~ObLinked(ob) /\ ~DataLinked(ob, datas)
             THEN [ob |-> Toggled(reset, ob.mode, toggle_ok),
                   calls |-> << ToggleCall(i, ob.mode, flag) >>]
             ELSE [ob |-> reset, calls |-> NoCalls]
    ELSE [ob |-> ob, calls |-> NoCalls]

\* The loop body for one object: the object afterwards and the calls made.
InitObject(ob, i, act, datas, flag, toggle_ok) ==
    IF ob.mode = OB_MODE_OBJECT
    THEN [ob |-> ob, calls |-> NoCalls]
    ELSE IF ~ob.has_mode_data /\ ob.type # OB_GPENCIL
    THEN LET reset == [ob EXCEPT !.mode = OB_MODE_OBJECT]
         IN  IF i = act /\ ~ObLinked(ob) /\ ~DataLinked(ob, datas)
             THEN [ob |-> Toggled(reset, ob.mode, toggle_ok),
                   calls |-> << ToggleCall(i, ob.mode, flag) >>]
             ELSE [ob |-> reset, calls |-> NoCalls]
    ELSE [ob |-> ob, calls |-> NoCalls]

RECURSIVE InitLoop(_, _, _, _, _, _)
InitLoop(i, obs, act, datas, flag, toggle_ok) ==
    IF i > Len(obs)
    THEN [objects |-> obs, calls |-> NoCalls]
    ELSE LET here == InitObject(obs[i], i, act, datas, flag, toggle_ok)
             rest == InitLoop(i + 1, [obs EXCEPT ![i] = here.ob], act, datas,
                              flag, toggle_ok)
         IN  [objects |-> rest.objects, calls |-> here.calls \o rest.calls]

\* if (sce) ED_space_image_paint_update(bmain, wm, sce)
ImagePaintUpdate(sce, flag) ==
    IF sce
    THEN << Call("ED_space_image_paint_update", 0, 0, {}, "", flag) >>
    ELSE NoCalls

ED_editors_init(toggle_ok) ==
    LET during == SWAP(<<reports_flag, ReportsFlagPrev(reports_flag)>>)
        loop   == IF obact # 0
                  THEN InitLoop(1, objects, obact, obdata, during[1], toggle_ok)
                  ELSE [objects |-> objects, calls |-> NoCalls]
        after  == SWAP(during)
    IN  /\ wm_first /\ ret = "pending"
        /\ undo_stack' = IF undo_stack = "NULL" THEN "stack" ELSE undo_stack
        /\ objects' = loop.objects
        /\ calls' = loop.calls \o ImagePaintUpdate(scene, during[1])
        /\ reports_flag' = after[1]
        /\ ret' = "void"
        /\ op' = [name |-> "ED_editors_init", toggle_ok |-> toggle_ok]
        /\ entry' = Snapshot
        /\ UNCHANGED <<obdata, wm_first, obact, scene, relbase_valid,
                       m_widget_touched, val>>

InitToggleOk   == ED_editors_init(TRUE)
InitToggleFail == ED_editors_init(FALSE)

\* Type, saved mode and mode data of a loaded object: an object in object
\* mode needs no mode data; a grease pencil object is in object mode or was
\* saved in a mode without its data.
SavedModes ==
    {<<OB_MESH, OB_MODE_OBJECT, TRUE>>, <<OB_MESH, {OB_MODE_EDIT}, FALSE>>,
     <<OB_MESH, {OB_MODE_EDIT}, TRUE>>, <<OB_MESH, {OB_MODE_SCULPT}, FALSE>>,
     <<OB_GPENCIL, OB_MODE_OBJECT, TRUE>>, <<OB_GPENCIL, {OB_MODE_EDIT}, FALSE>>}

\* ID_IS_LINKED(ob), ob->data != NULL, ID_IS_LINKED(ob->data): local with
\* data, local without data, linked object, linked data.
Linkages ==
    {<<FALSE, TRUE, FALSE>>, <<FALSE, FALSE, FALSE>>, <<TRUE, TRUE, FALSE>>,
     <<FALSE, TRUE, TRUE>>}

\* Object i owns data block i, or has no data.
LoadedObject(i, m, l) ==
    Object(m[1], m[2], m[3], l[1], IF l[2] THEN i ELSE 0, FALSE, FALSE)

\* A file has been loaded and ED_editors_init is about to run on it: the
\* window manager has no undo stack yet.
InitLoad ==
    /\ \E n \in 1..NumObjects :
       \E ms \in [1..n -> SavedModes], ls \in [1..n -> Linkages] :
          /\ objects = [i \in 1..n |-> LoadedObject(i, ms[i], ls[i])]
          /\ obdata = [d \in ObjIds |-> ObData(d <= n /\ ls[d][3], FALSE)]
          /\ obact \in 0..n
    /\ wm_first = TRUE
    /\ undo_stack = "NULL"
    /\ reports_flag \in {{RPT_PRINT}, {RPT_PRINT, RPT_STORE}}
    /\ scene \in BOOLEAN
    /\ calls = NoCalls
    /\ ret = "pending"
    /\ op = [name |-> "none", toggle_ok |-> FALSE]
    /\ entry = Snapshot
    /\ NoAux

NextLoad == InitToggleOk \/ InitToggleFail

SpecLoad == InitLoad /\ [][NextLoad]_vars

Initialised == op.name = "ED_editors_init"

\* The loop resets the mode of an object saved in a mode other than object
\* mode, without data for that mode, that is no grease pencil object.
NeedsReset(ob) ==
    /\ ob.mode # OB_MODE_OBJECT
    /\ ~ob.has_mode_data
    /\ ob.type # OB_GPENCIL

ToggleCalls == SelectSeq(calls, LAMBDA c : c.fn = "ED_object_mode_toggle")

\* C2: after ED_editors_init with an active object, every object that needed
\* the reset is in object mode unless ED_object_mode_toggle was called for it
\* with its saved mode; every ED_object_mode_toggle call is for the active
\* object, which needed the reset, with its saved mode, and neither it nor
\* its data is linked; objects that did not need the reset keep their mode.
C2_ToggleOnlyActiveLocal ==
    (Initialised /\ entry.obact # 0) =>
        /\ \A i \in 1..Len(objects) :
               LET e == entry.objects[i]
               IN  IF NeedsReset(e)
                   THEN \/ objects[i].mode = OB_MODE_OBJECT
                        \/ /\ ToggleCalls = << ToggleCall(i, e.mode, entry.reports_flag \ {RPT_STORE}) >>
                           /\ objects[i].mode = e.mode
                   ELSE objects[i] = e
        /\ \A k \in 1..Len(ToggleCalls) :
               LET c == ToggleCalls[k]
                   e == entry.objects[c.ob]
               IN  /\ c.ob = entry.obact
                   /\ NeedsReset(e)
                   /\ c.mode = e.mode
                   /\ ~e.lib
                   /\ ~(e.data # 0 /\ entry.obdata[e.data].lib)
        /\ Len(ToggleCalls) <= 1

C2_Witness ==
    /\ Initialised
    /\ Len(objects) >= 2
    /\ Len(ToggleCalls) = 1
    /\ \E i \in 1..Len(objects) :
           /\ i # entry.obact
           /\ NeedsReset(entry.objects[i])
           /\ objects[i].mode = OB_MODE_OBJECT
    /\ objects[entry.obact].mode # OB_MODE_OBJECT

\* An active object with linked data is reset and not toggled.
C2_WitnessLinked ==
    /\ Initialised
    /\ entry.obact # 0
    /\ NeedsReset(entry.objects[entry.obact])
    /\ entry.objects[entry.obact].data # 0
    /\ entry.obdata[entry.objects[entry.obact].data].lib
    /\ ToggleCalls = NoCalls

\* C3: every call ED_editors_init makes (each mode toggle, the image paint
\* update) sees reports->flag with RPT_STORE cleared and the other bits as at
\* entry, and on return reports->flag is what it was at entry.
C3_ReportsNotStored ==
    Initialised =>
        /\ \A k \in 1..Len(calls) :
               /\ RPT_STORE \notin calls[k].flag
               /\ calls[k].flag = entry.reports_flag \ {RPT_STORE}
        /\ reports_flag = entry.reports_flag

C3_Witness ==
    /\ Initialised
    /\ RPT_STORE \in entry.reports_flag
    /\ RPT_STORE \in reports_flag
    /\ Len(ToggleCalls) = 1
    /\ \E k \in 1..Len(calls) : calls[k].fn = "ED_space_image_paint_update"

-----------------------------------------------------------------------------
(* ED_editors_exit                                                         *)

DataCall(fn, i, d) == Call(fn, i, d, {}, "", {})

\* The undo stack afterwards and the calls made on it.
ExitUndo(has_wm, stack) ==
    IF has_wm /\ stack # "NULL"
    THEN [undo_stack |-> "NULL",
          calls |-> << Call("BKE_undosys_stack_destroy", 0, 0, {}, "", {}) >>]
    ELSE [undo_stack |-> stack, calls |-> NoCalls]

ExitObjectKeepEditMesh(ob, i, datas) ==
    IF ob.type = OB_MESH
    THEN IF datas[ob.data].edit
         THEN [obdata |-> datas,
               calls |-> << DataCall("EDBM_mesh_free", i, ob.data),
                            DataCall("MEM_freeN", i, ob.data) >>]
         ELSE [obdata |-> datas, calls |-> NoCalls]
    ELSE IF ob.type = OB_ARMATURE
    THEN IF datas[ob.data].edit
         THEN [obdata |-> [datas EXCEPT ![ob.data].edit = FALSE],
               calls |-> << DataCall("ED_armature_edit_free", i, ob.data) >>]
         ELSE [obdata |-> datas, calls |-> NoCalls]
    ELSE [obdata |-> datas, calls |-> NoCalls]

\* The loop body for one object: the data blocks afterwards and the calls
\* made. ED_armature_edit_free(arm) frees arm->edbo and leaves it NULL.
ExitObject(ob, i, datas) ==
    IF ob.type = OB_MESH
    THEN IF datas[ob.data].edit
         THEN [obdata |-> [datas EXCEPT ![ob.data].edit = FALSE],
               calls |-> << DataCall("EDBM_mesh_free", i, ob.data),
                            DataCall("MEM_freeN", i, ob.data) >>]
         ELSE [obdata |-> datas, calls |-> NoCalls]
    ELSE IF ob.type = OB_ARMATURE
    THEN IF datas[ob.data].edit
         THEN [obdata |-> [datas EXCEPT ![ob.data].edit = FALSE],
               calls |-> << DataCall("ED_armature_edit_free", i, ob.data) >>]
         ELSE [obdata |-> datas, calls |-> NoCalls]
    ELSE [obdata |-> datas, calls |-> NoCalls]

RECURSIVE ExitLoop(_, _, _)
ExitLoop(i, obs, datas) ==
    IF i > Len(obs)
    THEN [obdata |-> datas, calls |-> NoCalls]
    ELSE LET here == ExitObject(obs[i], i, datas)
             rest == ExitLoop(i + 1, obs, here.obdata)
         IN  [obdata |-> rest.obdata, calls |-> here.calls \o rest.calls]

\* ED_mesh_mirror_spatial_table(..., 'e'); ED_mesh_mirror_topo_table(..., 'e')
MirrorTablesEnd ==
    << Call("ED_mesh_mirror_spatial_table", 0, 0, {}, "e", {}),
       Call("ED_mesh_mirror_topo_table", 0, 0, {}, "e", {}) >>

\* bmain = CTX_data_main(C); has_bmain is bmain != NULL.
ED_editors_exit(has_bmain) ==
    LET undo == ExitUndo(wm_first, undo_stack)
        loop == ExitLoop(1, objects, obdata)
    IN  /\ op' = [name |-> "ED_editors_exit", has_bmain |-> has_bmain]
        /\ entry' = Snapshot
        /\ ret' = "void"
        /\ IF ~has_bmain
           THEN /\ calls' = NoCalls
                /\ UNCHANGED <<undo_stack, obdata>>
           ELSE /\ undo_stack' = undo.undo_stack
                /\ obdata' = loop.obdata
                /\ calls' = undo.calls \o loop.calls \o MirrorTablesEnd
        /\ UNCHANGED <<objects, wm_first, reports_flag, obact, scene,
                       relbase_valid, m_widget_touched, val>>

ExitMain   == ED_editors_exit(TRUE)
ExitNoMain == ED_editors_exit(FALSE)

\* Every object has data; objects sharing a data block have the same type.
ExitObjects ==
    {Object(t, OB_MODE_OBJECT, TRUE, FALSE, d, FALSE, FALSE) :
        t \in {OB_MESH, OB_ARMATURE, OB_GPENCIL}, d \in ObjIds}

InitExit ==
    /\ \E n \in 1..NumObjects : objects \in [1..n -> ExitObjects]
    /\ \A i, j \in 1..Len(objects) :
          objects[i].data = objects[j].data => objects[i].type = objects[j].type
    /\ obdata \in [ObjIds -> {ObData(FALSE, e) : e \in BOOLEAN}]
    /\ \A d \in ObjIds :
          (\A i \in 1..Len(objects) : objects[i].data # d) => ~obdata[d].edit
    /\ wm_first \in BOOLEAN
    /\ undo_stack \in {"NULL", "stack"}
    /\ ~wm_first => undo_stack = "NULL"
    /\ reports_flag = {}
    /\ obact = 0
    /\ scene = TRUE
    /\ calls = NoCalls
    /\ ret = "none"
    /\ op = [name |-> "none", has_bmain |-> FALSE]
    /\ entry = Snapshot
    /\ NoAux

NextExit == ExitMain \/ ExitNoMain

SpecExit == InitExit /\ [][NextExit]_vars

Exited == op.name = "ED_editors_exit"

\* C4: after ED_editors_exit with a bmain, the first window manager (if there
\* is one) has no undo stack, and the stack was destroyed exactly if it
\* existed; no mesh object's data has an edit_btmesh; ED_armature_edit_free
\* was called on the data of every armature object that had edit bones at
\* entry. Without a bmain nothing is called and nothing changes.
C4_ExitFreesEditData ==
    Exited =>
        IF op.has_bmain
        THEN /\ wm_first => undo_stack = "NULL"
             /\ (\E k \in 1..Len(calls) : calls[k].fn = "BKE_undosys_stack_destroy")
                    <=> (entry.wm_first /\ entry.undo_stack # "NULL")
             /\ \A i \in 1..Len(objects) :
                    /\ objects[i].type = OB_MESH => ~obdata[objects[i].data].edit
                    /\ (objects[i].type = OB_ARMATURE
                            /\ entry.obdata[objects[i].data].edit) =>
                           \E k \in 1..Len(calls) :
                               /\ calls[k].fn = "ED_armature_edit_free"
                               /\ calls[k].data = objects[i].data
        ELSE /\ calls = NoCalls
             /\ undo_stack = entry.undo_stack
             /\ obdata = entry.obdata

C4_Witness ==
    /\ Exited /\ op.has_bmain
    /\ entry.wm_first /\ entry.undo_stack = "stack" /\ undo_stack = "NULL"
    /\ \E i \in 1..Len(objects) :
           /\ objects[i].type = OB_MESH
           /\ entry.obdata[objects[i].data].edit
    /\ \E i \in 1..Len(objects) :
           /\ objects[i].type = OB_ARMATURE
           /\ entry.obdata[objects[i].data].edit

\* Without a bmain an undo stack and edit data are left in place.
C4_WitnessNoMain ==
    /\ Exited /\ ~op.has_bmain
    /\ undo_stack = "stack"
    /\ \E i \in 1..Len(objects) : obdata[objects[i].data].edit

-----------------------------------------------------------------------------
(* apply_keyb_grid                                                         *)

\* Largest *val and the grid factors tried, in grid units.
MaxVal == 4

\* The editors' data where no file is loaded.
EditorsAtRest ==
    /\ objects = << >>
    /\ obdata = NoData
    /\ wm_first = TRUE
    /\ undo_stack = "NULL"
    /\ reports_flag = {}
    /\ obact = 0
    /\ scene = FALSE
    /\ entry = Snapshot

\* floorf(n / d) of two integers, d # 0.
FloorDiv(n, d) == IF d > 0 THEN n \div d ELSE (0 - n) \div (0 - d)

\* fac * floorf(v / fac + 0.5f) if fac != 0, else v.
\* v / fac + 1/2 = (2 v + fac) / (2 fac)
SnapTo(v, fac) ==
    IF fac # 0 THEN fac * FloorDiv(2 * v + fac, 2 * fac) ELSE v

\* !ctrl
LogicalNot(x) == IF x # 0 THEN 0 ELSE 1

\* The value *val holds when apply_keyb_grid returns.
KeybGrid(shift, ctrl, v, fac1, fac2, fac3, invert) ==
    LET c == IF invert # 0 THEN LogicalNot(ctrl) ELSE ctrl
    IN  IF c # 0 /\ shift # 0 THEN SnapTo(v, fac3)
        ELSE IF c # 0 THEN SnapTo(v, fac2)
        ELSE SnapTo(v, fac1)

apply_keyb_grid(shift, ctrl, fac1, fac2, fac3, invert) ==
    /\ val' = KeybGrid(shift, ctrl, val, fac1, fac2, fac3, invert)
    /\ op' = [name |-> "apply_keyb_grid", shift |-> shift, ctrl |-> ctrl,
              val |-> val, fac1 |-> fac1, fac2 |-> fac2, fac3 |-> fac3,
              invert |-> invert]
    /\ ret' = "void"
    /\ UNCHANGED <<edvars, calls, relbase_valid, m_widget_touched>>

\* Three factors that can be told apart, each possibly 0 (no snapping).
KeybSnap ==
    \E shift, ctrl, invert \in {0, 1} :
    \E fac1 \in {0, 2}, fac2 \in {0, 3}, fac3 \in {0, 5} :
        apply_keyb_grid(shift, ctrl, fac1, fac2, fac3, invert)

InitKeyb ==
    /\ EditorsAtRest
    /\ calls = NoCalls
    /\ ret = "none"
    /\ op = [name |-> "none"]
    /\ relbase_valid = FALSE
    /\ m_widget_touched = << >>
    /\ val \in (0 - MaxVal)..MaxVal

NextKeyb == KeybSnap

SpecKeyb == InitKeyb /\ [][NextKeyb]_vars

\* C6: apply_keyb_grid snaps *val with fac1 when neither modifier is held,
\* with fac2 when CTRL is held (ctrl as negated by invert) and with fac3 when
\* SHIFT is held; a selected factor of 0 leaves *val unchanged.
C6_SnapFactorByModifier ==
    op.name = "apply_keyb_grid" =>
        LET c == IF op.invert # 0 THEN LogicalNot(op.ctrl) ELSE op.ctrl
            selected == IF op.shift # 0 THEN op.fac3
                        ELSE IF c # 0 THEN op.fac2
                        ELSE op.fac1
        IN  val = IF selected = 0 THEN op.val ELSE SnapTo(op.val, selected)

-----------------------------------------------------------------------------
(* unpack_menu                                                             *)

\* Longest abs_name, in characters.
MaxPathLen == 5

\* Paths are sequences of characters.
PathChars == {"/", "\\", "a"}

RECURSIVE PathsOfLen(_)
PathsOfLen(n) ==
    IF n = 0 THEN {<< >>}
    ELSE {Append(q, ch) : q \in PathsOfLen(n - 1), ch \in PathChars}

Paths == UNION {PathsOfLen(n) : n \in 1..MaxPathLen}

\* BLI_last_slash: index of the last '/' or '\\', 0 if there is none.
RECURSIVE LastSlash(_, _)
LastSlash(path, i) ==
    IF i = 0 THEN 0
    ELSE IF path[i] \in {"/", "\\"} THEN i
    ELSE LastSlash(path, i - 1)

\* BLI_split_file_part(abs_name, fi, sizeof(fi)): what follows the last slash.
BLI_split_file_part(path) ==
    SubSeq(path, LastSlash(path, Len(path)) + 1, Len(path))

\* BLI_snprintf(local_name, ..., "//%s/%s", folder, fi)
LocalName(abs_name, folder) ==
    <<"/", "/">> \o folder \o <<"/">> \o BLI_split_file_part(abs_name)

\* uiItemFullO_ptr(layout, ot, line, ...) followed by RNA_enum_set(..., "method",
\* method) and RNA_string_set(..., "id", id_name) on the item's properties;
\* line is text formatted with name.
MenuItem(text, name, method, id_name) ==
    [fn |-> "uiItemFullO_ptr", text |-> text, name |-> name,
     method |-> method, id |-> id_name]

PathItemsOverwriteAlways(result, name, write, use, id_name) ==
    IF result = "PF_NOFILE"
    THEN << MenuItem("Create %s", name, write, id_name),
            MenuItem("Overwrite %s", name, write, id_name) >>
    ELSE IF result = "PF_EQUAL"
    THEN << MenuItem("Use %s (identical)", name, use, id_name) >>
    ELSE << MenuItem("Use %s (differs)", name, use, id_name),
            MenuItem("Overwrite %s", name, write, id_name) >>

\* switch (checkPackedFile(..., name, pf)): the items added for one path.
PathItems(result, name, write, use, id_name) ==
    IF result = "PF_NOFILE"
    THEN << MenuItem("Create %s", name, write, id_name) >>
    ELSE IF result = "PF_EQUAL"
    THEN << MenuItem("Use %s (identical)", name, use, id_name) >>
    ELSE IF result = "PF_DIFFERS"
    THEN << MenuItem("Use %s (differs)", name, use, id_name),
            MenuItem("Overwrite %s", name, write, id_name) >>
    ELSE NoCalls

\* if (G.relbase_valid) { ... if (!STREQ(abs_name, local_name)) switch ... }
LocalItems(valid, abs_name, folder, local_result, id_name) ==
    IF valid /\ abs_name # LocalName(abs_name, folder)
    THEN PathItems(local_result, LocalName(abs_name, folder),
                   "PF_WRITE_LOCAL", "PF_USE_LOCAL", id_name)
    ELSE NoCalls

\* The arguments of a call of unpack_menu; local_result and abs_result are
\* what checkPackedFile finds on disk for local_name and for abs_name.
CheckResults == {"PF_NOFILE", "PF_EQUAL", "PF_DIFFERS"}

UnpackArgs ==
    [name : {"unpack_menu"}, id_name : {"IMimage", "SOsound"},
     abs_name : Paths, folder : {<<"a">>},
     local_result : CheckResults, abs_result : CheckResults]

\* The menu is built for the call in op; ret tells that it has returned.
unpack_menu ==
    /\ op.name = "unpack_menu" /\ ret = "pending"
    /\ calls' = << MenuItem("Remove Pack", << >>, "PF_REMOVE", op.id_name) >>
                \o LocalItems(relbase_valid, op.abs_name, op.folder,
                              op.local_result, op.id_name)
                \o PathItems(op.abs_result, op.abs_name, "PF_WRITE_ORIGINAL",
                             "PF_USE_ORIGINAL", op.id_name)
    /\ ret' = "void"
    /\ UNCHANGED <<edvars, op, relbase_valid, m_widget_touched, val>>

InitMenu ==
    /\ EditorsAtRest
    /\ calls = NoCalls
    /\ ret = "pending"
    /\ op \in UnpackArgs
    /\ relbase_valid \in BOOLEAN
    /\ m_widget_touched = << >>
    /\ val = 0

NextMenu == unpack_menu

SpecMenu == InitMenu /\ [][NextMenu]_vars

MenuBuilt == op.name = "unpack_menu" /\ ret = "void"

ItemsFor(name) == SelectSeq(calls, LAMBDA c : c.name = name)
Texts(items) == [k \in 1..Len(items) |-> items[k].text]
LocalMethods == {"PF_WRITE_LOCAL", "PF_USE_LOCAL"}
WriteMethods == {"PF_WRITE_LOCAL", "PF_WRITE_ORIGINAL"}
UseMethods   == {"PF_USE_LOCAL", "PF_USE_ORIGINAL"}

\* What the menu must hold for a path checked with `result`.
ItemsAsClaimed(items, result) ==
    /\ result = "PF_NOFILE" =>
           /\ Texts(items) = << "Create %s" >>
           /\ items[1].method \in WriteMethods
    /\ result = "PF_EQUAL" =>
           /\ Texts(items) = << "Use %s (identical)" >>
           /\ items[1].method \in UseMethods
    /\ result = "PF_DIFFERS" =>
           /\ Texts(items) = << "Use %s (differs)", "Overwrite %s" >>
           /\ items[1].method \in UseMethods
           /\ items[2].method \in WriteMethods

\* C8: the menu starts with the one "Remove Pack" item (PF_REMOVE); items
\* with a local method exist only if G.relbase_valid is set and the local
\* name differs from abs_name; each path checked gets one "Create" item with
\* a write method for PF_NOFILE, one "Use" item with a use method for
\* PF_EQUAL, a "Use" item then an "Overwrite" item for PF_DIFFERS, so that
\* "Overwrite" is offered only for a file that differs; every item's id is
\* id_name; the items for abs_name use only the ORIGINAL methods.
C8_UnpackMenuItems ==
    MenuBuilt =>
        LET local == LocalName(op.abs_name, op.folder)
            has_local == \E k \in 1..Len(calls) : calls[k].method \in LocalMethods
        IN  /\ calls[1] = MenuItem("Remove Pack", << >>, "PF_REMOVE", op.id_name)
            /\ \A k \in 2..Len(calls) : calls[k].method # "PF_REMOVE"
            /\ has_local => (relbase_valid /\ local # op.abs_name)
            /\ has_local =>
                   /\ ItemsAsClaimed(ItemsFor(local), op.local_result)
                   /\ \A k \in 1..Len(calls) :
                          calls[k].method \in LocalMethods <=> calls[k].name = local
            /\ ItemsAsClaimed(ItemsFor(op.abs_name), op.abs_result)
            /\ \A k \in 1..Len(calls) :
                   /\ calls[k].id = op.id_name
                   /\ calls[k].name = op.abs_name =>
                          calls[k].method \in {"PF_WRITE_ORIGINAL", "PF_USE_ORIGINAL"}
                   /\ calls[k].text = "Overwrite %s" =>
                          \/ calls[k].name = op.abs_name
                                 /\ op.abs_result = "PF_DIFFERS"
                          \/ calls[k].name = local /\ local # op.abs_name
                                 /\ op.local_result = "PF_DIFFERS"
                   /\ k > 1 => calls[k].name \in {local, op.abs_name}

C8_Witness ==
    /\ MenuBuilt
    /\ relbase_valid
    /\ op.local_result = "PF_DIFFERS"
    /\ op.abs_result = "PF_NOFILE"
    /\ Len(calls) = 4

\* A local name equal to abs_name adds no local items.
C8_WitnessSameName ==
    /\ MenuBuilt
    /\ relbase_valid
    /\ LocalName(op.abs_name, op.folder) = op.abs_name
    /\ op.abs_result = "PF_DIFFERS"
    /\ Len(calls) = 3

-----------------------------------------------------------------------------
(* Widget_Shift::render_icon                                               *)

\* Mat44f is a 4 x 4 matrix.
MatDim == 4

Dims == 1..MatDim

RECURSIVE DotFrom(_, _, _, _, _)
DotFrom(a, b, i, j, k) ==
    IF k > MatDim THEN 0 ELSE a[i][k] * b[k][j] + DotFrom(a, b, i, j, k + 1)

\* Mat44f::operator*
MatMul(a, b) == [i \in Dims |-> [j \in Dims |-> DotFrom(a, b, i, j, 1)]]

\* Uniform scaling by sc with a translation of tx along x (last row).
ScaleMove(sc, tx) ==
    [i \in Dims |-> [j \in Dims |->
        IF i = MatDim /\ j = 1 THEN tx
        ELSE IF i = j THEN (IF i = MatDim THEN 1 ELSE sc)
        ELSE 0]]

\* A quarter turn about z.
QuarterTurn ==
    [i \in Dims |-> [j \in Dims |->
        IF i = 1 /\ j = 2 THEN 1
        ELSE IF i = 2 /\ j = 1 THEN 0 - 1
        ELSE IF i = j /\ i > 2 THEN 1
        ELSE 0]]

Transforms ==
    {ScaleMove(sc, tx) : sc \in 1..2, tx \in 0..1}
        \cup {MatMul(QuarterTurn, ScaleMove(sc, tx)) : sc \in 1..2, tx \in 0..1}

DrawCall(fn, args) == [fn |-> fn, args |-> args]

TouchedTransformRightMul(t) == MatMul(t, m_widget_touched)

\* const Mat44f& t_touched = m_widget_touched * t
TouchedTransform(t) == MatMul(m_widget_touched, t)

\* VR_Draw::set_color arguments: red when active, white otherwise.
IconColor(active) == IF active THEN <<1, 0, 0, 1>> ELSE <<1, 1, 1, 1>>

\* VR_Draw::render_rect(-0.009f, 0.009f, 0.009f, -0.009f, 0.001f, 1.0f, 1.0f,
\*                      VR_Draw::shift_tex)
IconRect ==
    DrawCall("VR_Draw::render_rect",
             <<"-0.009f", "0.009f", "0.009f", "-0.009f", "0.001f", "1.0f",
               "1.0f", "VR_Draw::shift_tex">>)

\* The draw calls of render_icon(t, controller_side, active, touched).
RenderIcon(t, controller_side, active, touched) ==
    << DrawCall("VR_Draw::update_modelview_matrix",
                IF touched THEN TouchedTransform(t) ELSE t),
       DrawCall("VR_Draw::set_color", IconColor(active)),
       IconRect >>

RenderArgs ==
    [name : {"render_icon"}, t : Transforms,
     controller_side : {"VR_SIDE_LEFT", "VR_SIDE_RIGHT"},
     active : BOOLEAN, touched : BOOLEAN]

\* The icon is drawn for the call in op; ret tells that it has returned.
render_icon ==
    /\ op.name = "render_icon" /\ ret = "pending"
    /\ calls' = RenderIcon(op.t, op.controller_side, op.active, op.touched)
    /\ ret' = "void"
    /\ UNCHANGED <<edvars, op, relbase_valid, m_widget_touched, val>>

\* m_widget_touched is a constant of the widget base class: a transform
\* applied to the icon of a touched widget.
InitWidget ==
    /\ EditorsAtRest
    /\ calls = NoCalls
    /\ ret = "pending"
    /\ op \in RenderArgs
    /\ relbase_valid = FALSE
    /\ m_widget_touched \in {ScaleMove(1, 0), ScaleMove(2, 0), ScaleMove(2, 1)}
    /\ val = 0

NextWidget == render_icon

SpecWidget == InitWidget /\ [][NextWidget]_vars

IconDrawn == op.name = "render_icon" /\ ret = "void"

\* C5, as claimed: for the transform t given, the modelview matrix passed to
\* VR_Draw::update_modelview_matrix and the colour passed to
\* VR_Draw::set_color are the same for all values of active and touched.
C5_FixedTransformAndColor ==
    IconDrawn =>
        \A a, tc \in BOOLEAN :
            LET other == RenderIcon(op.t, op.controller_side, a, tc)
            IN  /\ other[1] = calls[1]
                /\ other[2] = calls[2]

\* C5, amended: render_icon makes three draw calls. The modelview matrix is
\* t when the widget is not touched and m_widget_touched * t when it is, the
\* same for all values of active and controller_side; the colour is
\* (1, 0, 0, 1) when the widget is active and (1, 1, 1, 1) when it is not,
\* the same for all values of touched and controller_side; the rectangle and
\* its texture are the same for all arguments.
C5_TransformByTouchColorByActive ==
    IconDrawn =>
        /\ Len(calls) = 3
        /\ calls[1].fn = "VR_Draw::update_modelview_matrix"
        /\ ~op.touched => calls[1].args = op.t
        /\ op.touched =>
               \A i, j \in Dims :
                   calls[1].args[i][j] =
                       m_widget_touched[i][1] * op.t[1][j]
                       + m_widget_touched[i][2] * op.t[2][j]
                       + m_widget_touched[i][3] * op.t[3][j]
                       + m_widget_touched[i][4] * op.t[4][j]
        /\ calls[2].fn = "VR_Draw::set_color"
        /\ calls[2].args = IF op.active THEN <<1, 0, 0, 1>> ELSE <<1, 1, 1, 1>>
        /\ calls[3] = IconRect
        /\ \A side \in {"VR_SIDE_LEFT", "VR_SIDE_RIGHT"}, b \in BOOLEAN :
               /\ RenderIcon(op.t, side, b, op.touched)[1] = calls[1]
               /\ RenderIcon(op.t, side, op.active, b)[2] = calls[2]
               /\ RenderIcon(op.t, side, b, ~b)[3] = calls[3]

C5_Witness ==
    /\ IconDrawn
    /\ op.touched /\ op.active
    /\ calls[1].args # op.t
    /\ MatMul(m_widget_touched, op.t) # MatMul(op.t, m_widget_touched)
    /\ calls[2].args = <<1, 0, 0, 1>>

====
